---- MODULE Spec2Model ----
(***************************************************************************)
(* A model of the CrewAI Startup Ideas API (app/main.py, app/core/crews.py, *)
(* app/core/llm.py, app/core/tasks.py, app/models.py).                      *)
(*                                                                         *)
(* Text is modelled character by character: a Python str is a sequence of  *)
(* one-character strings, and the string methods the handlers call (strip,  *)
(* split, startswith, lower, replace, json.loads) are computed on that      *)
(* sequence the way Python computes them.  A Python value is a record       *)
(* [t |-> type tag, v |-> payload].                                         *)
(***************************************************************************)
EXTENDS Integers, Sequences, FiniteSets, TLC

VARIABLES
    api_key,              \* whether OPENAI_API_KEY is set in the environment
    pc,                   \* the position of the handler serving the request
    endpoint,             \* "none", "generate_ideas" or "validate_idea"
    idea,                 \* ValidationRequest.idea
    trace,                \* the external calls made for this request, in order
    result,               \* what crew.kickoff() returned
    result_text,          \* generate_ideas: the result as a string
    ideas_text,           \* generate_ideas: the paragraphs not yet entered
    lines,                \* generate_ideas: the lines of the paragraph not yet seen
    current_idea,         \* generate_ideas: the accumulator
    ideas_list,           \* generate_ideas: the output
    last_line,            \* generate_ideas: the line the loop handled last
    stage1,               \* create_idea_validation_crew: its locals results,
                          \* market_analysis, tech_evaluation and final_result
    crew,                 \* validate_idea: what create_idea_validation_crew returned
    results_data,         \* validate_idea: the unwrapped result
    market_analysis,      \* validate_idea: locals of the same names
    technical_evaluation,
    business_plan,
    response              \* the HTTP response of the request

vars == <<api_key, pc, endpoint, idea, trace, result, result_text, ideas_text,
          lines, current_idea, ideas_list, last_line, stage1, crew, results_data,
          market_analysis, technical_evaluation, business_plan, response>>

giVars == <<result_text, ideas_text, lines, current_idea, ideas_list, last_line>>
viVars == <<stage1, crew, results_data, market_analysis, technical_evaluation,
            business_plan>>

(***************************************************************************)
(* Python values.                                                          *)
(***************************************************************************)
PyNone       == [t |-> "none", v |-> <<>>]
PyStr(s)     == [t |-> "str", v |-> s]
PyNum(lex)   == [t |-> "num", v |-> lex]
PyBool(b)    == [t |-> "bool", v |-> b]
PyList(xs)   == [t |-> "list", v |-> xs]
PyDict(f)    == [t |-> "dict", v |-> f]
\* an object carrying a raw_output attribute
CrewOutput(x) == [t |-> "crewoutput", v |-> x]
\* a local that is not bound yet
Unbound      == [t |-> "unbound", v |-> <<>>]

EmptyDict == <<>>
dict_set(d, k, x) == [y \in (DOMAIN d) \cup {k} |-> IF y = k THEN x ELSE d[y]]
dict_get(d, k, default) == IF k \in DOMAIN d THEN d[k] ELSE default

(***************************************************************************)
(* Python's str methods, on sequences of characters.                       *)
(***************************************************************************)
IsSpace(c) == c \in {" ", "\n", "\t", "\r"}

RECURSIVE lstrip(_)
lstrip(s) == IF s # <<>> /\ IsSpace(Head(s)) THEN lstrip(Tail(s)) ELSE s

RECURSIVE rstrip(_)
rstrip(s) ==
    IF s # <<>> /\ IsSpace(s[Len(s)]) THEN rstrip(SubSeq(s, 1, Len(s) - 1)) ELSE s

strip(s) == rstrip(lstrip(s))

startswith(s, p) == Len(s) >= Len(p) /\ SubSeq(s, 1, Len(p)) = p

\* the first index >= i at which sep occurs in s, or 0
RECURSIVE find(_, _, _)
find(s, sep, i) ==
    IF i + Len(sep) - 1 > Len(s) THEN 0
    ELSE IF SubSeq(s, i, i + Len(sep) - 1) = sep THEN i
    ELSE find(s, sep, i + 1)

contains(s, sep) == find(s, sep, 1) # 0

\* s.split(sep)
RECURSIVE split(_, _)
split(s, sep) ==
    LET j == find(s, sep, 1) IN
    IF j = 0 THEN <<s>>
    ELSE <<SubSeq(s, 1, j - 1)>> \o split(SubSeq(s, j + Len(sep), Len(s)), sep)

\* s.split(sep, 1)
split1(s, sep) ==
    LET j == find(s, sep, 1) IN
    IF j = 0 THEN <<s>>
    ELSE <<SubSeq(s, 1, j - 1), SubSeq(s, j + Len(sep), Len(s))>>

UpperCase == <<"A","B","C","D","E","F","G","H","I","J","K","L","M",
               "N","O","P","Q","R","S","T","U","V","W","X","Y","Z">>
LowerCase == <<"a","b","c","d","e","f","g","h","i","j","k","l","m",
               "n","o","p","q","r","s","t","u","v","w","x","y","z">>

lower_char(c) ==
    IF \E i \in DOMAIN UpperCase : UpperCase[i] = c
    THEN LowerCase[CHOOSE i \in DOMAIN UpperCase : UpperCase[i] = c]
    ELSE c

lower(s) == [i \in DOMAIN s |-> lower_char(s[i])]

\* s.replace(a, b) for one-character a and b
replace(s, a, b) == [i \in DOMAIN s |-> IF s[i] = a THEN b ELSE s[i]]

(***************************************************************************)
(* json.loads: the scanner of Python's json module on the JSON grammar     *)
(* without string escapes.  A result is [ok, val, pos]: pos is the index    *)
(* after the value.                                                        *)
(***************************************************************************)
JFail == [ok |-> FALSE, val |-> PyNone, pos |-> 0]
JOk(x, p) == [ok |-> TRUE, val |-> x, pos |-> p]

RECURSIVE skip_ws(_, _)
skip_ws(s, i) == IF i <= Len(s) /\ IsSpace(s[i]) THEN skip_ws(s, i + 1) ELSE i

IsDigit(c) == c \in {"0", "1", "2", "3", "4", "5", "6", "7", "8", "9"}

\* the first index >= i that holds no digit
RECURSIVE digits_end(_, _)
digits_end(s, i) == IF i <= Len(s) /\ IsDigit(s[i]) THEN digits_end(s, i + 1) ELSE i

startswith_at(s, i, p) ==
    i + Len(p) - 1 <= Len(s) /\ SubSeq(s, i, i + Len(p) - 1) = p

\* NUMBER_RE (-?(?:0|[1-9]\d*))(\.\d+)?([eE][-+]?\d+)? matched at i: the index
\* after the match, or 0
match_number(s, i) ==
    LET a == IF i <= Len(s) /\ s[i] = "-" THEN i + 1 ELSE i
        b == IF a <= Len(s) /\ s[a] = "0" THEN a + 1
             ELSE IF a <= Len(s) /\ IsDigit(s[a]) THEN digits_end(s, a)
             ELSE 0
        c == IF b # 0 /\ b <= Len(s) /\ s[b] = "." /\ digits_end(s, b + 1) > b + 1
             THEN digits_end(s, b + 1) ELSE b
        d == IF c # 0 /\ c < Len(s) /\ s[c] \in {"e", "E"}
             THEN (IF s[c + 1] \in {"-", "+"} THEN c + 2 ELSE c + 1)
             ELSE 0
    IN  IF d # 0 /\ digits_end(s, d) > d THEN digits_end(s, d) ELSE c

\* py_scanstring, strict: s[i] is the opening quote
parse_string(s, i) ==
    LET j == find(s, <<"\"">>, i + 1)
        body == SubSeq(s, i + 1, j - 1)
    IN  IF j = 0 THEN JFail
        ELSE IF \E k \in DOMAIN body : body[k] \in {"\n", "\t", "\r"} THEN JFail
        ELSE JOk(PyStr(body), j + 1)

JNull     == <<"n", "u", "l", "l">>
JTrue     == <<"t", "r", "u", "e">>
JFalse    == <<"f", "a", "l", "s", "e">>
JNaN      == <<"N", "a", "N">>
JInfinity == <<"I", "n", "f", "i", "n", "i", "t", "y">>

RECURSIVE scan_once(_, _), parse_array(_, _, _), parse_object(_, _, _)

scan_once(s, i) ==
    IF i > Len(s) THEN JFail
    ELSE IF s[i] = "\"" THEN parse_string(s, i)
    ELSE IF s[i] = "{" THEN
        LET j == skip_ws(s, i + 1) IN
        IF j <= Len(s) /\ s[j] = "}" THEN JOk(PyDict(EmptyDict), j + 1)
        ELSE parse_object(s, j, EmptyDict)
    ELSE IF s[i] = "[" THEN
        LET j == skip_ws(s, i + 1) IN
        IF j <= Len(s) /\ s[j] = "]" THEN JOk(PyList(<<>>), j + 1)
        ELSE parse_array(s, j, <<>>)
    ELSE IF startswith_at(s, i, JNull) THEN JOk(PyNone, i + 4)
    ELSE IF startswith_at(s, i, JTrue) THEN JOk(PyBool(TRUE), i + 4)
    ELSE IF startswith_at(s, i, JFalse) THEN JOk(PyBool(FALSE), i + 5)
    ELSE IF match_number(s, i) # 0
        THEN JOk(PyNum(SubSeq(s, i, match_number(s, i) - 1)), match_number(s, i))
    ELSE IF startswith_at(s, i, JNaN) THEN JOk(PyNum(JNaN), i + 3)
    ELSE IF startswith_at(s, i, JInfinity) THEN JOk(PyNum(JInfinity), i + 8)
    ELSE IF startswith_at(s, i, <<"-">> \o JInfinity)
        THEN JOk(PyNum(<<"-">> \o JInfinity), i + 9)
    ELSE JFail

\* JSONArray after "[" and white space, acc the items so far
parse_array(s, i, acc) ==
    LET r == scan_once(s, i)
        j == skip_ws(s, r.pos)
    IN  IF ~r.ok \/ j > Len(s) THEN JFail
        ELSE IF s[j] = "]" THEN JOk(PyList(Append(acc, r.val)), j + 1)
        ELSE IF s[j] = "," THEN parse_array(s, skip_ws(s, j + 1), Append(acc, r.val))
        ELSE JFail

\* JSONObject after "{" and white space, acc the pairs so far
parse_object(s, i, acc) ==
    IF i > Len(s) \/ s[i] # "\"" THEN JFail
    ELSE
        LET k == parse_string(s, i)
            c == skip_ws(s, k.pos)
        IN  IF ~k.ok \/ c > Len(s) \/ s[c] # ":" THEN JFail
            ELSE
                LET r == scan_once(s, skip_ws(s, c + 1))
                    j == skip_ws(s, r.pos)
                IN  IF ~r.ok \/ j > Len(s) THEN JFail
                    ELSE IF s[j] = "}"
                        THEN JOk(PyDict(dict_set(acc, k.val.v, r.val)), j + 1)
                    ELSE IF s[j] = ","
                        THEN parse_object(s, skip_ws(s, j + 1),
                                          dict_set(acc, k.val.v, r.val))
                    ELSE JFail

\* json.loads(s): [ok |-> FALSE] stands for JSONDecodeError
json_loads(s) ==
    LET r == scan_once(s, skip_ws(s, 1)) IN
    IF r.ok /\ skip_ws(s, r.pos) = Len(s) + 1 THEN r ELSE JFail

(***************************************************************************)
(* The texts the model draws the language model's answers from.            *)
(***************************************************************************)
MaxLines == 3

LineNameA   == <<" ", "N", "a", "m", "e", ":", " ", "A">>
LineNameB   == <<"N", "a", "m", "e", ":", " ", "B">>
LineNum     == <<"1", ".", " ", "C">>
LineNumName == <<"2", ".", " ", "N", "a", "m", "e", ":", " ", "D">>
LineTag     == <<"T", "a", "g", " ", "L", "i", "n", "e", ":", " ", "x">>
LineTag2    == <<"t", "a", "g", " ", "l", "i", "n", "e", ":", "y", ":", "z">>
Linename    == <<"n", "a", "m", "e", ":", " ", "e">>
LineKeySp   == <<"K", " ", ":", "v">>
LineProse   == <<"p", "r", "o">>
LineBlank   == <<>>

LineSet == {LineNameA, LineNameB, LineNum, LineNumName, LineTag, LineTag2,
            Linename, LineKeySp, LineProse, LineBlank}

RECURSIVE join(_, _)
join(ls, sep) ==
    IF ls = <<>> THEN <<>>
    ELSE IF Len(ls) = 1 THEN ls[1]
    ELSE ls[1] \o sep \o join(Tail(ls), sep)

FreeTexts ==
    {join(ls, <<"\n">>) : ls \in UNION {[1..n -> LineSet] : n \in 0..MaxLines}}

JsonEmpty   == <<"[", "]">>
JsonIdeas   == <<"[", "{", "\"", "n", "a", "m", "e", "\"", ":", "\"", "A", "\"", "}", "]">>
JsonNoName  == <<"[", "{", "\"", "t", "a", "g", "\"", ":", " ", "\"", "x", "\"", "}", "]">>
JsonNumber  == <<"7">>
JsonNull    == <<"n", "u", "l", "l">>
JsonObject  == <<"{", "\"", "n", "a", "m", "e", "\"", ":", "\"", "A", "\"", "}">>
JsonString  == <<"\"", "a", "b", "c", "\"">>
JsonNumList == <<"[", "1", "]">>
JsonCut     == <<"[", "{", "\"", "n", "a", "m", "e", "\"", ":", "\"", "A", "\"", "}">>

JsonTexts == {JsonEmpty, JsonIdeas, JsonNoName, JsonNumber, JsonNull, JsonObject,
              JsonString, JsonNumList, JsonCut}

\* what the idea crew's kickoff can return: a str, an object with a raw_output
\* attribute, or another object
IdeaResults ==
    {PyStr(t) : t \in FreeTexts \cup JsonTexts}
    \cup {CrewOutput(PyStr(t)) : t \in JsonTexts \cup {LineNameA}}
    \cup {CrewOutput(PyNone), PyNone, PyNum(<<"7">>)}

StrNone  == <<"N", "o", "n", "e">>
StrTrue  == <<"T", "r", "u", "e">>
StrFalse == <<"F", "a", "l", "s", "e">>

\* str(x) for the values above
py_str(x) ==
    CASE x.t = "str"  -> x.v
      [] x.t = "none" -> StrNone
      [] x.t = "num"  -> x.v
      [] x.t = "bool" -> IF x.v THEN StrTrue ELSE StrFalse

(***************************************************************************)
(* Responses.                                                              *)
(***************************************************************************)
NoResponse == [status |-> 0, body |-> PyNone]

\* HTTPException(status_code, detail)
HTTPException(status_code, detail) ==
    [status |-> status_code, body |-> [t |-> "detail", v |-> detail]]

\* main.py:142-146 and 223-227: except Exception as e, for an exception of class
\* exc with message msg: the detail is the prefix, then str(e)
except_handler(prefix, exc, msg) == HTTPException(500, <<prefix, exc, msg>>)

\* models.py: ideas: List[Dict[str, str]]
IsIdeasResponse(x) ==
    /\ x.t = "list"
    /\ \A i \in DOMAIN x.v :
          /\ x.v[i].t = "dict"
          /\ \A k \in DOMAIN x.v[i].v : x.v[i].v[k].t = "str"

\* models.py: three str fields
IsValidationResponse(m, t, b) == m.t = "str" /\ t.t = "str" /\ b.t = "str"

\* len(x) raises TypeError unless x is sized
has_len(x) == x.t \in {"str", "list", "dict"}

\* an entry of the trace: an external call and what it was given
Call(op, arg) == [op |-> op, arg |-> arg]

\* llm.py:10-12: create_llm raises ValueError
missing_api_key == ~api_key

(***************************************************************************)
(* generate_ideas                                                          *)
(***************************************************************************)
NameTok == <<"N", "a", "m", "e", ":">>
K_name  == <<"n", "a", "m", "e">>
Colon   == <<":">>

\* a slip in line 113: `startswith("Name:") or "1."` is true of every line
is_new_idea_truthy(line) == TRUE

\* a slip in line 113: the numbered markers are left out
is_new_idea_name_only(line) == startswith(line, NameTok)

\* main.py:113
is_new_idea(line) ==
    \/ startswith(line, NameTok)
    \/ startswith(line, <<"1", ".">>)
    \/ startswith(line, <<"2", ".">>)
    \/ startswith(line, <<"3", ".">>)
    \/ startswith(line, <<"4", ".">>)
    \/ startswith(line, <<"5", ".">>)

\* main.py:115 and 134: current_idea and "name" in current_idea
has_name(d) == DOMAIN d # {} /\ K_name \in DOMAIN d

\* main.py:120-125
idea_name(line) ==
    LET name_part == split1(line, Colon) IN
    IF Len(name_part) > 1 THEN strip(name_part[2]) ELSE strip(line)

\* a slip in line 129: the key is not stripped before it is normalised
field_key_unstripped(line) == replace(lower(split1(line, Colon)[1]), " ", "_")

\* main.py:128-130
field_key(line) == replace(lower(strip(split1(line, Colon)[1])), " ", "_")
field_value(line) == strip(split1(line, Colon)[2])

\* a slip in lines 115-117: the pending idea is not appended, its name is overwritten
start_idea_overwrite(cur, out, line) ==
    [current_idea |-> dict_set(cur, K_name, PyStr(idea_name(line))),
     ideas_list |-> out]

\* a slip in lines 115-117: the accumulator is reset at every new-idea line
start_idea_fresh(cur, out, line) ==
    [current_idea |-> dict_set(EmptyDict, K_name, PyStr(idea_name(line))),
     ideas_list |-> IF has_name(cur) THEN PyList(Append(out.v, PyDict(cur))) ELSE out]

\* main.py:115-125: a new-idea line
start_idea(cur, out, line) ==
    LET flushed == has_name(cur)
        cur1 == IF flushed THEN EmptyDict ELSE cur
    IN  [current_idea |-> dict_set(cur1, K_name, PyStr(idea_name(line))),
         ideas_list |-> IF flushed THEN PyList(Append(out.v, PyDict(cur))) ELSE out]

\* main.py:126-131: another line with a colon
store_field(cur, out, line) ==
    [current_idea |-> dict_set(cur, field_key(line), PyStr(field_value(line))),
     ideas_list |-> out]

\* main.py:109-131: the body of the inner loop, line already stripped
loop_body(cur, out, line) ==
    IF line = <<>> THEN [current_idea |-> cur, ideas_list |-> out]
    ELSE IF is_new_idea(line) THEN start_idea(cur, out, line)
    ELSE IF contains(line, Colon) THEN store_field(cur, out, line)
    ELSE [current_idea |-> cur, ideas_list |-> out]

\* a slip in line 134: the last accumulator is appended without the name check
last_idea_always(cur, out) == PyList(Append(out.v, PyDict(cur)))

\* main.py:133-135
last_idea(cur, out) ==
    IF has_name(cur) THEN PyList(Append(out.v, PyDict(cur))) ELSE out

\* main.py:78-87
to_result_text(r) ==
    IF r.t = "crewoutput" THEN py_str(r.v)
    ELSE IF r.t = "str" THEN r.v
    ELSE py_str(r)

Done(resp) == pc' = "done" /\ response' = resp

\* main.py:50-59 with llm.py:8-19: the request arrives and create_llm runs
gi_create_llm ==
    /\ pc = "idle"
    /\ endpoint' = "generate_ideas"
    /\ IF ~missing_api_key
       THEN /\ trace' = Append(trace, Call("create_llm", PyNone))
            /\ pc' = "gi_kickoff"
            /\ UNCHANGED response
       ELSE /\ Done(except_handler("Error generating ideas", "ValueError",
                                  "Missing OPENAI_API_KEY environment variable"))
            /\ UNCHANGED trace
    /\ UNCHANGED <<api_key, idea, result, giVars, viVars>>

\* main.py:61-89 with crews.py:15-35: the crew is created and kicked off; the
\* framework returns a result or raises
gi_kickoff ==
    /\ pc = "gi_kickoff"
    /\ trace' = trace \o <<Call("create_idea_generation_crew", PyNone),
                           Call("crew.kickoff", PyNone)>>
    /\ \/ \E r \in IdeaResults :
            /\ result' = r
            /\ result_text' = to_result_text(r)
            /\ pc' = "gi_json"
            /\ UNCHANGED response
       \/ /\ Done(except_handler("Error generating ideas", "Exception",
                                "kickoff failed"))
          /\ UNCHANGED <<result, result_text>>
    /\ UNCHANGED <<api_key, endpoint, idea, ideas_text, lines, current_idea,
                   ideas_list, last_line, viVars>>

\* main.py:91-103: the fast path, or the start of the text parse
gi_json ==
    /\ pc = "gi_json"
    /\ LET r == json_loads(result_text) IN
       IF r.ok
       THEN /\ ideas_list' = r.val
            /\ pc' = "gi_return"
            /\ UNCHANGED <<ideas_text, current_idea>>
       ELSE /\ ideas_list' = PyList(<<>>)
            /\ ideas_text' = split(result_text, <<"\n", "\n">>)
            /\ current_idea' = EmptyDict
            /\ pc' = "gi_loop"
    /\ UNCHANGED <<api_key, endpoint, idea, trace, result, result_text, lines,
                   last_line, viVars, response>>

\* main.py:105-106: the outer loop enters the next paragraph
gi_paragraph ==
    /\ pc = "gi_loop"
    /\ lines = <<>>
    /\ ideas_text # <<>>
    /\ lines' = split(strip(Head(ideas_text)), <<"\n">>)
    /\ ideas_text' = Tail(ideas_text)
    /\ last_line' = <<>>
    /\ UNCHANGED <<api_key, pc, endpoint, idea, trace, result, result_text,
                   current_idea, ideas_list, viVars, response>>

\* main.py:108-131: the inner loop handles the next line
gi_line ==
    /\ pc = "gi_loop"
    /\ lines # <<>>
    /\ LET line == strip(Head(lines))
           r == loop_body(current_idea, ideas_list, line)
       IN  /\ current_idea' = r.current_idea
           /\ ideas_list' = r.ideas_list
           /\ last_line' = line
    /\ lines' = Tail(lines)
    /\ UNCHANGED <<api_key, pc, endpoint, idea, trace, result, result_text,
                   ideas_text, viVars, response>>

\* main.py:133-137: after the loops, the last idea
gi_last ==
    /\ pc = "gi_loop"
    /\ lines = <<>>
    /\ ideas_text = <<>>
    /\ ideas_list' = last_idea(current_idea, ideas_list)
    /\ pc' = "gi_return"
    /\ UNCHANGED <<api_key, endpoint, idea, trace, result, result_text, ideas_text,
                   lines, current_idea, last_line, viVars, response>>

\* main.py:139-146 and the response_model of line 49 (models.py:14-16)
gi_return ==
    /\ pc = "gi_return"
    /\ Done(IF ~has_len(ideas_list)
            THEN except_handler("Error generating ideas", "TypeError",
                               "object has no len()")
            ELSE IF ~IsIdeasResponse(ideas_list)
            THEN HTTPException(500, <<"Internal Server Error",
                                 "ResponseValidationError", "ideas">>)
            ELSE [status |-> 200,
                  body |-> [t |-> "IdeasResponse", v |-> ideas_list]])
    /\ UNCHANGED <<api_key, endpoint, idea, trace, result, giVars, viVars>>

(***************************************************************************)
(* validate_idea                                                           *)
(***************************************************************************)
MaxItems == 4
MaxSegs  == 3

Ideas == {<<>>, <<"a", "p", "p">>}

MarketMarker    == <<"M", "a", "r", "k", "e", "t", " ", "A", "n", "a", "l", "y", "s", "i", "s">>
TechnicalMarker == <<"T", "e", "c", "h", "n", "i", "c", "a", "l", " ", "E", "v", "a", "l", "u", "a", "t", "i", "o", "n">>
BusinessMarker  == <<"B", "u", "s", "i", "n", "e", "s", "s", " ", "P", "l", "a", "n">>

MarketPlaceholder    == <<"M", "a", "r", "k", "e", "t", " ", "a", "n", "a", "l", "y", "s", "i", "s", " ", "n", "o", "t", " ", "a", "v", "a", "i", "l", "a", "b", "l", "e">>
TechnicalPlaceholder == <<"T", "e", "c", "h", "n", "i", "c", "a", "l", " ", "e", "v", "a", "l", "u", "a", "t", "i", "o", "n", " ", "n", "o", "t", " ", "a", "v", "a", "i", "l", "a", "b", "l", "e">>
BusinessPlaceholder  == <<"B", "u", "s", "i", "n", "e", "s", "s", " ", "p", "l", "a", "n", " ", "n", "o", "t", " ", "a", "v", "a", "i", "l", "a", "b", "l", "e">>

K_market_analysis      == <<"m", "a", "r", "k", "e", "t", "_", "a", "n", "a", "l", "y", "s", "i", "s">>
K_technical_evaluation == <<"t", "e", "c", "h", "n", "i", "c", "a", "l", "_", "e", "v", "a", "l", "u", "a", "t", "i", "o", "n">>
K_business_plan        == <<"b", "u", "s", "i", "n", "e", "s", "s", "_", "p", "l", "a", "n">>

MarketSummary    == <<"\n", "\n", "M", "a", "r", "k", "e", "t", " ", "A", "n", "a", "l", "y", "s", "i", "s", " ", "S", "u", "m", "m", "a", "r", "y", ":", "\n">>
TechnicalSummary == <<"\n", "\n", "T", "e", "c", "h", "n", "i", "c", "a", "l", " ", "F", "e", "a", "s", "i", "b", "i", "l", "i", "t", "y", " ", "S", "u", "m", "m", "a", "r", "y", ":", "\n">>

\* what the first crew's kickoff can return
FirstResults ==
    {PyList(<<PyStr(a), PyStr(b)>>) : a \in {<<"m">>, <<>>}, b \in {<<"t">>, <<>>}}
    \cup {PyList(<<PyStr(<<"m">>)>>), PyStr(<<"m", "t">>), PyStr(<<>>)}

\* what the final crew's kickoff can return
FinalResults == {PyStr(<<"b">>), PyStr(<<>>)}

\* x[i] for a list or a str, i counted from 0: [ok |-> FALSE] stands for IndexError
subscript(x, i) ==
    IF i + 1 > Len(x.v) THEN [ok |-> FALSE, val |-> PyNone]
    ELSE IF x.t = "str" THEN [ok |-> TRUE, val |-> PyStr(<<x.v[i + 1]>>)]
    ELSE [ok |-> TRUE, val |-> x.v[i + 1]]

\* the truth value of a str
truthy(x) == x.v # <<>>

\* a slip in lines 77-78: the technical evaluation is left out of the context
business_context_market_only(market, tech) ==
    IF truthy(market) THEN MarketSummary \o py_str(market) ELSE <<>>

\* tasks.py:74-78
business_context(market, tech) ==
    (IF truthy(market) THEN MarketSummary \o py_str(market) ELSE <<>>)
    \o (IF truthy(tech) THEN TechnicalSummary \o py_str(tech) ELSE <<>>)

\* crews.py:85-89
validation_record(market, tech, final) ==
    PyDict(dict_set(dict_set(dict_set(EmptyDict, K_market_analysis, market),
                             K_technical_evaluation, tech),
                    K_business_plan, final))

\* hasattr(x, "kickoff"): a Crew has the method, a dict has not
has_kickoff(x) == x.t = "crew"

\* main.py:149-161 with llm.py:8-19: the request arrives, the idea is checked and
\* create_llm runs.  The HTTPException of line 156 is raised inside the try block,
\* and line 223 catches every Exception.
vi_request ==
    /\ pc = "idle"
    /\ endpoint' = "validate_idea"
    /\ \E i \in Ideas :
          /\ idea' = i
          /\ IF i = <<>>
             THEN /\ Done(except_handler("Error validating idea", "HTTPException",
                                        "400: Idea is required"))
                  /\ UNCHANGED trace
             ELSE IF ~missing_api_key
             THEN /\ trace' = Append(trace, Call("create_llm", PyNone))
                  /\ pc' = "vi_first"
                  /\ UNCHANGED response
             ELSE /\ Done(except_handler("Error validating idea", "ValueError",
                                        "Missing OPENAI_API_KEY environment variable"))
                  /\ UNCHANGED trace
    /\ UNCHANGED <<api_key, result, giVars, viVars>>

\* crews.py:37-65: the first crew runs the market and the technical task
vi_first ==
    /\ pc = "vi_first"
    /\ trace' = trace \o <<Call("create_idea_validation_crew", PyStr(idea)),
                           Call("first_crew.kickoff", PyNone)>>
    /\ \/ \E results \in FirstResults :
            IF subscript(results, 0).ok /\ subscript(results, 1).ok
            THEN /\ stage1' = [results |-> results,
                               market_analysis |-> subscript(results, 0).val,
                               tech_evaluation |-> subscript(results, 1).val,
                               final_result |-> Unbound]
                 /\ pc' = "vi_final"
                 /\ UNCHANGED response
            ELSE /\ Done(except_handler("Error validating idea", "IndexError",
                                       "index out of range"))
                 /\ stage1' = [stage1 EXCEPT !.results = results]
       \/ /\ Done(except_handler("Error validating idea", "Exception",
                                "kickoff failed"))
          /\ UNCHANGED stage1
    /\ UNCHANGED <<api_key, endpoint, idea, result, giVars, crew, results_data,
                   market_analysis, technical_evaluation, business_plan>>

\* crews.py:67-89 with tasks.py:72-98: the business task is built from the first
\* results, the final crew runs it, and the three results are returned as a dict
vi_final ==
    /\ pc = "vi_final"
    /\ trace' = trace \o
          <<Call("create_business_plan_task",
                 PyStr(business_context(stage1.market_analysis,
                                        stage1.tech_evaluation))),
            Call("final_crew.kickoff", PyNone)>>
    /\ \/ \E final_result \in FinalResults :
            /\ stage1' = [stage1 EXCEPT !.final_result = final_result]
            /\ crew' = validation_record(stage1.market_analysis,
                                         stage1.tech_evaluation, final_result)
            /\ pc' = "vi_kickoff"
            /\ UNCHANGED response
       \/ /\ Done(except_handler("Error validating idea", "Exception",
                                "kickoff failed"))
          /\ UNCHANGED <<stage1, crew>>
    /\ UNCHANGED <<api_key, endpoint, idea, result, giVars, results_data,
                   market_analysis, technical_evaluation, business_plan>>

\* what crew.kickoff() of main.py:171 can return
ValidationTexts ==
    LET segs == {MarketMarker, TechnicalMarker, BusinessMarker,
                 <<":", " ", "a", ".", " ">>, <<" ", "b">>}
    IN  {join(ls, <<>>) : ls \in UNION {[1..n -> segs] : n \in 0..MaxSegs}}

ValidationKeys == {K_market_analysis, K_technical_evaluation, K_business_plan}
ValidationItems == {PyStr(<<"m">>), PyStr(<<"x">>)}

ValidationResults ==
    {PyStr(t) : t \in ValidationTexts}
    \cup {PyDict(f) : f \in UNION {[ks -> ValidationItems] : ks \in SUBSET ValidationKeys}}
    \cup {PyList(xs) : xs \in UNION {[1..n -> ValidationItems] : n \in 0..MaxItems}}
    \cup {PyNone, PyNum(<<"7">>), PyBool(TRUE),
          PyList(<<PyStr(<<"m">>), PyNone, PyStr(<<"x">>)>>),
          PyDict(dict_set(EmptyDict, K_market_analysis, PyNone)),
          PyDict(dict_set(EmptyDict, <<"o">>, PyStr(<<"x">>)))}
    \cup {CrewOutput(x) : x \in {PyNone, PyStr(MarketMarker \o <<"a">>),
                                 PyList(<<PyStr(<<"m">>), PyStr(<<"x">>), PyStr(<<"m">>)>>)}}

\* main.py:169-171: crew is what create_idea_validation_crew returned
vi_kickoff ==
    /\ pc = "vi_kickoff"
    /\ IF ~has_kickoff(crew)
       THEN /\ Done(except_handler("Error validating idea", "AttributeError",
                                  "'dict' object has no attribute 'kickoff'"))
            /\ UNCHANGED <<trace, result>>
       ELSE /\ trace' = Append(trace, Call("crew.kickoff", PyNone))
            /\ \E r \in ValidationResults : result' = r
            /\ pc' = "vi_unwrap"
            /\ UNCHANGED response
    /\ UNCHANGED <<api_key, endpoint, idea, giVars, viVars>>

\* main.py:175-182
unwrap(results) == IF results.t = "crewoutput" THEN results.v ELSE results

\* main.py:185-189
from_dict(d) ==
    [market_analysis |-> dict_get(d.v, K_market_analysis, PyStr(MarketPlaceholder)),
     technical_evaluation |->
         dict_get(d.v, K_technical_evaluation, PyStr(TechnicalPlaceholder)),
     business_plan |-> dict_get(d.v, K_business_plan, PyStr(BusinessPlaceholder))]

\* a slip in lines 192-193: the first two positions are exchanged
from_list_swapped(d) ==
    [market_analysis |-> d.v[2], technical_evaluation |-> d.v[1],
     business_plan |-> d.v[3]]

\* main.py:190-194
from_list(d) ==
    [market_analysis |-> d.v[1], technical_evaluation |-> d.v[2],
     business_plan |-> d.v[3]]

\* main.py:195-207
from_string(s) ==
    [market_analysis |->
        IF contains(s, MarketMarker)
        THEN PyStr(strip(split(split(s, MarketMarker)[2], TechnicalMarker)[1]))
        ELSE PyStr(MarketPlaceholder),
     technical_evaluation |->
        IF contains(s, TechnicalMarker)
        THEN PyStr(strip(split(split(s, TechnicalMarker)[2], BusinessMarker)[1]))
        ELSE PyStr(TechnicalPlaceholder),
     business_plan |->
        IF contains(s, BusinessMarker)
        THEN PyStr(strip(split(s, BusinessMarker)[2]))
        ELSE PyStr(BusinessPlaceholder)]

\* a slip in lines 211-212: results_str, which line 211 computes, is used
unexpected_str(d) ==
    [market_analysis |->
        IF d.t \in {"none", "num", "bool"} THEN PyStr(py_str(d))
        ELSE PyStr(MarketPlaceholder),
     technical_evaluation |-> PyStr(TechnicalPlaceholder),
     business_plan |-> PyStr(BusinessPlaceholder)]

\* main.py:208-214
unexpected(d) ==
    [market_analysis |-> PyStr(MarketPlaceholder),
     technical_evaluation |-> PyStr(TechnicalPlaceholder),
     business_plan |-> PyStr(BusinessPlaceholder)]

\* main.py:190: isinstance(results_data, list) and len(results_data) >= 3
is_triple(d) == d.t = "list" /\ Len(d.v) >= 3

\* main.py:184-214
sections(d) ==
    IF d.t = "dict" THEN from_dict(d)
    ELSE IF is_triple(d) THEN from_list(d)
    ELSE IF d.t = "str" THEN from_string(d.v)
    ELSE unexpected(d)

vi_unwrap ==
    /\ pc = "vi_unwrap"
    /\ results_data' = unwrap(result)
    /\ pc' = "vi_dispatch"
    /\ UNCHANGED <<api_key, endpoint, idea, trace, result, giVars, stage1, crew,
                   market_analysis, technical_evaluation, business_plan, response>>

vi_dispatch ==
    /\ pc = "vi_dispatch"
    /\ LET r == sections(results_data) IN
          /\ market_analysis' = r.market_analysis
          /\ technical_evaluation' = r.technical_evaluation
          /\ business_plan' = r.business_plan
    /\ pc' = "vi_respond"
    /\ UNCHANGED <<api_key, endpoint, idea, trace, result, giVars, stage1, crew,
                   results_data, response>>

\* main.py:216-227 with models.py:18-22
vi_respond ==
    /\ pc = "vi_respond"
    /\ Done(IF IsValidationResponse(market_analysis, technical_evaluation,
                                    business_plan)
            THEN [status |-> 200,
                  body |-> [t |-> "ValidationResponse",
                            v |-> [market_analysis |-> market_analysis.v,
                                   technical_evaluation |-> technical_evaluation.v,
                                   business_plan |-> business_plan.v]]]
            ELSE except_handler("Error validating idea", "ValidationError",
                               "str type expected"))
    /\ UNCHANGED <<api_key, endpoint, idea, trace, result, giVars, viVars>>

(***************************************************************************)
(* The service: one request at a time, from arrival to response.           *)
(***************************************************************************)
Idle ==
    /\ pc = "idle"
    /\ endpoint = "none"
    /\ idea = <<>>
    /\ trace = <<>>
    /\ result = Unbound
    /\ result_text = <<>>
    /\ ideas_text = <<>>
    /\ lines = <<>>
    /\ current_idea = EmptyDict
    /\ ideas_list = PyList(<<>>)
    /\ last_line = <<>>
    /\ stage1 = [results |-> Unbound, market_analysis |-> PyNone,
                 tech_evaluation |-> PyNone, final_result |-> Unbound]
    /\ crew = PyNone
    /\ results_data = PyNone
    /\ market_analysis = PyNone
    /\ technical_evaluation = PyNone
    /\ business_plan = PyNone
    /\ response = NoResponse

Init == api_key \in BOOLEAN /\ Idle

\* the response is sent and the service waits for the next request
next_request ==
    /\ pc = "done"
    /\ pc' = "idle"
    /\ endpoint' = "none"
    /\ idea' = <<>>
    /\ trace' = <<>>
    /\ result' = Unbound
    /\ result_text' = <<>>
    /\ ideas_text' = <<>>
    /\ lines' = <<>>
    /\ current_idea' = EmptyDict
    /\ ideas_list' = PyList(<<>>)
    /\ last_line' = <<>>
    /\ stage1' = [results |-> Unbound, market_analysis |-> PyNone,
                  tech_evaluation |-> PyNone, final_result |-> Unbound]
    /\ crew' = PyNone
    /\ results_data' = PyNone
    /\ market_analysis' = PyNone
    /\ technical_evaluation' = PyNone
    /\ business_plan' = PyNone
    /\ response' = NoResponse
    /\ UNCHANGED api_key

Next ==
    \/ gi_create_llm \/ gi_kickoff \/ gi_json \/ gi_paragraph \/ gi_line
    \/ gi_last \/ gi_return
    \/ vi_request \/ vi_first \/ vi_final \/ vi_kickoff
    \/ next_request

Spec == Init /\ [][Next]_vars

(***************************************************************************)
(* The parsing of validate_idea on its own: main.py:175-227 applied to     *)
(* every value crew.kickoff() can return.                                  *)
(***************************************************************************)
InitSections ==
    /\ api_key = TRUE
    /\ pc = "vi_unwrap"
    /\ endpoint = "validate_idea"
    /\ idea = <<"a", "p", "p">>
    /\ trace = <<>>
    /\ result \in ValidationResults
    /\ result_text = <<>>
    /\ ideas_text = <<>>
    /\ lines = <<>>
    /\ current_idea = EmptyDict
    /\ ideas_list = PyList(<<>>)
    /\ last_line = <<>>
    /\ stage1 = [results |-> Unbound, market_analysis |-> PyNone,
                 tech_evaluation |-> PyNone, final_result |-> Unbound]
    /\ crew = PyNone
    /\ results_data = PyNone
    /\ market_analysis = PyNone
    /\ technical_evaluation = PyNone
    /\ business_plan = PyNone
    /\ response = NoResponse

NextSections == vi_unwrap \/ vi_dispatch \/ vi_respond

SpecSections == InitSections /\ [][NextSections]_vars
(***************************************************************************)
(* Properties of generate_ideas.                                           *)
(***************************************************************************)
\* the request was a generate-ideas request whose crew returned, and it is answered
IdeasAnswered ==
    pc = "done" /\ endpoint = "generate_ideas" /\ result.t # "unbound"

\* the answer is a 200 whose ideas are a sequence of records
ReturnsRecords ==
    /\ response.status = 200
    /\ response.body.v.t = "list"
    /\ \A i \in DOMAIN response.body.v.v : response.body.v.v[i].t = "dict"

\* C1: idea-mode extraction never raises: for every result text, valid JSON,
\* malformed JSON or prose, the request ends with a sequence of records returned
\* to the caller and not in the error path.
C1_NeverRaises == IdeasAnswered => ReturnsRecords

\* the text did not parse as JSON: the lines were parsed
FreeTextAnswered == IdeasAnswered /\ ~json_loads(result_text).ok

NoIdeas == response.status = 200 /\ response.body.v = PyList(<<>>)

\* the lines of a text, trimmed, the blank ones left out
RECURSIVE NonBlank(_)
NonBlank(ls) ==
    IF ls = <<>> THEN <<>>
    ELSE (IF strip(Head(ls)) = <<>> THEN <<>> ELSE <<strip(Head(ls))>>)
         \o NonBlank(Tail(ls))

TextLines(t) == NonBlank(split(t, <<"\n">>))

NameLine(l) == startswith(l, NameTok)
NumberedLine(l) == \E d \in {"1", "2", "3", "4", "5"} : startswith(l, <<d, ".">>)
MarkerLine(l) == NameLine(l) \/ NumberedLine(l)
FieldLine(l) == ~MarkerLine(l) /\ contains(l, Colon)

\* the name a marker line gives: the trimmed text after its first colon, or the
\* whole line when it has none
MarkerName(l) ==
    IF contains(l, Colon) THEN strip(SubSeq(l, find(l, Colon, 1) + 1, Len(l))) ELSE l

\* C3 as stated: a result text without any colon yields an empty sequence:
\* whatever is returned for such a text is empty.
C3_NoColonNoIdeas ==
    (IdeasAnswered /\ ~contains(result_text, Colon) /\ response.status = 200)
    => NoIdeas

\* C3, amended: a result text without any colon that is not valid JSON and has no
\* line starting with 1. to 5. yields an empty sequence.
C3_NoColonNoMarkerNoIdeas ==
    (/\ FreeTextAnswered
     /\ ~contains(result_text, Colon)
     /\ \A i \in DOMAIN TextLines(result_text) :
           ~NumberedLine(TextLines(result_text)[i]))
    => NoIdeas

C3_Witness ==
    /\ FreeTextAnswered
    /\ result_text = LineProse \o <<"\n">> \o LineProse
    /\ NoIdeas

AllNamed ==
    \A i \in DOMAIN response.body.v.v : K_name \in DOMAIN response.body.v.v[i].v

\* C4 as stated: every record returned has a name field, for every input text, the
\* structured fast path included.
C4_EveryRecordNamed == (IdeasAnswered /\ ReturnsRecords) => AllNamed

\* C4, amended: every record returned for a text that fails the structured fast
\* path has a name field; the fast path returns what it parsed, named or not.
C4_EveryParsedRecordNamed == FreeTextAnswered => (ReturnsRecords /\ AllNamed)

C4_Witness ==
    /\ FreeTextAnswered
    /\ ReturnsRecords
    /\ Len(response.body.v.v) = 2
    /\ \E i \in DOMAIN TextLines(result_text) : FieldLine(TextLines(result_text)[i])

\* the loop is about to handle a Name: line that directly follows a Name: line
NameAfterName ==
    /\ pc = "gi_loop"
    /\ lines # <<>>
    /\ NameLine(last_line)
    /\ NameLine(strip(Head(lines)))

\* C8 as stated: a Name: line directly after a Name: line overwrites the pending
\* name and emits nothing, so the pair gives one record named by the second line.
C8_SecondNameOverwrites ==
    [][NameAfterName =>
         /\ ideas_list' = ideas_list
         /\ current_idea' =
               dict_set(current_idea, K_name, PyStr(MarkerName(strip(Head(lines)))))]_vars

\* C8, amended: a Name: line directly after a Name: line appends the pending
\* record, named by the first line, to the output and opens a new record named by
\* the second line, so the pair gives two records.
C8_SecondNameFlushes ==
    [][NameAfterName =>
         /\ current_idea[K_name] = PyStr(MarkerName(last_line))
         /\ ideas_list' = PyList(Append(ideas_list.v, PyDict(current_idea)))
         /\ current_idea' = (K_name :> PyStr(MarkerName(strip(Head(lines)))))]_vars

C8_Witness ==
    /\ FreeTextAnswered
    /\ result_text = LineNameB \o <<"\n">> \o LineNameA
    /\ response.body.v.v = <<PyDict(K_name :> PyStr(<<"B">>)),
                             PyDict(K_name :> PyStr(<<"A">>))>>

\* the number of marker lines among the first i lines
MarkersUpTo(ls, i) == Len(SelectSeq(SubSeq(ls, 1, i), MarkerLine))

\* one record per marker line, in order and named by it, and every field line
\* after a marker line is in the record of the last marker line before it,
\* whatever blank lines lie between
OnePerMarker ==
    LET ls  == TextLines(result_text)
        ms  == SelectSeq(ls, MarkerLine)
        out == response.body.v.v
    IN  /\ ReturnsRecords
        /\ Len(out) = Len(ms)
        /\ \A k \in DOMAIN ms :
              /\ K_name \in DOMAIN out[k].v
              /\ out[k].v[K_name] = PyStr(MarkerName(ms[k]))
        /\ \A i \in DOMAIN ls :
              (FieldLine(ls[i]) /\ MarkersUpTo(ls, i) >= 1)
              => field_key(ls[i]) \in DOMAIN out[MarkersUpTo(ls, i)].v

\* no field line has a key that reads `name`
NoNameField ==
    \A i \in DOMAIN TextLines(result_text) :
        FieldLine(TextLines(result_text)[i])
        => field_key(TextLines(result_text)[i]) # K_name

\* C10 as stated: free-text parsing gives exactly one record per marker line, in
\* order, each named by its own marker line; blank lines never add, split or
\* remove a record, and later field lines attach to the record opened earlier.
C10_OneRecordPerMarker == FreeTextAnswered => OnePerMarker

\* C10, amended: the same, for a text none of whose field lines has the key `name`
\* (such a line sets the name of the record like a marker line does).
C10_OneRecordPerMarkerNoNameField == (FreeTextAnswered /\ NoNameField) => OnePerMarker

C10_Witness ==
    /\ FreeTextAnswered
    /\ NoNameField
    /\ result_text = LineNameB \o <<"\n", "\n">> \o LineTag
    /\ Len(response.body.v.v) = 1
    /\ DOMAIN response.body.v.v[1].v = {K_name, <<"t", "a", "g", "_", "l", "i", "n", "e">>}

\* the place of the first colon of a line that has one
FirstColon(l) ==
    CHOOSE i \in 1..Len(l) : l[i] = ":" /\ \A j \in 1..(i - 1) : l[j] # ":"

\* lower-cased, every space replaced by an underscore
Normalised(s) ==
    [j \in 1..Len(s) |-> IF s[j] = " " THEN "_" ELSE lower_char(s[j])]

\* the text before the first colon, and the trimmed text after it
TextBefore(l) == SubSeq(l, 1, FirstColon(l) - 1)
ValueAfter(l) == strip(SubSeq(l, FirstColon(l) + 1, Len(l)))

\* the record d with the key k set to the text v, whatever it held under k before
Stored(d, k, v) ==
    [x \in DOMAIN d \cup {k} |-> IF x = k THEN PyStr(v) ELSE d[x]]

\* the loop is about to handle a line
AtLine == pc = "gi_loop" /\ lines # <<>>

\* a line that is no marker line and has no colon changes nothing
PlainLineIgnored ==
    (~MarkerLine(strip(Head(lines))) /\ ~contains(strip(Head(lines)), Colon))
    => (current_idea' = current_idea /\ ideas_list' = ideas_list)

\* C11 as stated: a non-marker line with a colon is split at its first colon; the
\* key is the text before it, lower-cased with spaces replaced by underscores, the
\* value is the trimmed text after it, and the pair is stored in the current
\* record over any earlier value of that key; a non-marker line without a colon
\* changes nothing.
C11_KeyIsTextBefore ==
    [][AtLine =>
         /\ FieldLine(strip(Head(lines))) =>
               /\ current_idea' =
                     Stored(current_idea,
                            Normalised(TextBefore(strip(Head(lines)))),
                            ValueAfter(strip(Head(lines))))
               /\ ideas_list' = ideas_list
         /\ PlainLineIgnored]_vars

\* C11, amended: the same, the key being the trimmed text before the first colon,
\* lower-cased with the spaces that remain replaced by underscores.
C11_KeyIsTrimmedTextBefore ==
    [][AtLine =>
         /\ FieldLine(strip(Head(lines))) =>
               /\ current_idea' =
                     Stored(current_idea,
                            Normalised(strip(TextBefore(strip(Head(lines))))),
                            ValueAfter(strip(Head(lines))))
               /\ ideas_list' = ideas_list
         /\ PlainLineIgnored]_vars

\* two lines with the key tag_line, the second with a further colon, then a line
\* with a space before its colon, have been stored
C11_Witness ==
    /\ pc = "gi_loop"
    /\ result_text = LineTag \o <<"\n">> \o LineTag2 \o <<"\n">> \o LineKeySp
    /\ last_line = LineKeySp
    /\ current_idea =
          (<<"t", "a", "g", "_", "l", "i", "n", "e">> :> PyStr(<<"y", ":", "z">>))
          @@ (<<"k">> :> PyStr(<<"v">>))

\* the key a field line is stored under
KeyOf(l) == Normalised(strip(TextBefore(l)))

\* the places of the marker lines among the lines ls
MarkerPlaces(ls) == {i \in DOMAIN ls : MarkerLine(ls[i])}

\* the place of the first marker line, or Len(ls) + 1 when there is none
FirstMarker(ls) ==
    IF MarkerPlaces(ls) = {} THEN Len(ls) + 1
    ELSE CHOOSE i \in MarkerPlaces(ls) : \A j \in MarkerPlaces(ls) : i <= j

\* the place of the second marker line, or Len(ls) + 1 when there is none
SecondMarker(ls) ==
    LET later == MarkerPlaces(ls) \ {FirstMarker(ls)} IN
    IF later = {} THEN Len(ls) + 1
    ELSE CHOOSE i \in later : \A j \in later : i <= j

\* the places of the field lines before the first marker line
EarlyFields(ls) == {i \in 1..(FirstMarker(ls) - 1) : FieldLine(ls[i])}

\* the last field line before the second marker line that has the key of line i
LastOfKey(ls, i) ==
    LET same == {j \in 1..(SecondMarker(ls) - 1) :
                    FieldLine(ls[j]) /\ KeyOf(ls[j]) = KeyOf(ls[i])}
    IN  CHOOSE j \in same : \A k \in same : k <= j

\* no record without a marker line of its own
NoRecordWithoutMarker ==
    Len(response.body.v.v) <= Cardinality(MarkerPlaces(TextLines(result_text)))

\* C13 as stated: a key:value line before the first marker line never produces a
\* record of its own; when a marker line follows, its key and value are in the
\* first record emitted; when none follows, the output is empty.
C13_EarlyPairInFirstRecord ==
    LET ls == TextLines(result_text) IN
    (FreeTextAnswered /\ EarlyFields(ls) # {}) =>
        /\ ReturnsRecords
        /\ NoRecordWithoutMarker
        /\ IF MarkerPlaces(ls) = {} THEN NoIdeas
           ELSE /\ Len(response.body.v.v) >= 1
                /\ \A i \in EarlyFields(ls) :
                      /\ KeyOf(ls[i]) \in DOMAIN response.body.v.v[1].v
                      /\ response.body.v.v[1].v[KeyOf(ls[i])] = PyStr(ValueAfter(ls[i]))

\* C13, amended: for a text none of whose field lines has the key `name`, a
\* key:value line before the first marker line never produces a record of its
\* own; when a marker line follows, its key is in the first record emitted, with
\* the value of the last line of that key before the second marker line; when
\* none follows, the output is empty.
C13_EarlyKeyInFirstRecord ==
    LET ls == TextLines(result_text) IN
    (FreeTextAnswered /\ NoNameField /\ EarlyFields(ls) # {}) =>
        /\ ReturnsRecords
        /\ NoRecordWithoutMarker
        /\ IF MarkerPlaces(ls) = {} THEN NoIdeas
           ELSE /\ Len(response.body.v.v) >= 1
                /\ \A i \in EarlyFields(ls) :
                      /\ KeyOf(ls[i]) \in DOMAIN response.body.v.v[1].v
                      /\ response.body.v.v[1].v[KeyOf(ls[i])]
                            = PyStr(ValueAfter(ls[LastOfKey(ls, i)]))

C13_Witness ==
    /\ FreeTextAnswered
    /\ result_text = LineTag \o <<"\n">> \o LineNameB
    /\ response.body.v.v =
          <<PyDict((<<"t", "a", "g", "_", "l", "i", "n", "e">> :> PyStr(<<"x">>))
                   @@ (K_name :> PyStr(<<"B">>)))>>

(***************************************************************************)
(* Properties of validate_idea.                                            *)
(***************************************************************************)
\* both crew runs of create_idea_validation_crew completed: it returned its record
BothCrewsCompleted ==
    pc = "done" /\ endpoint = "validate_idea" /\ idea # <<>> /\ crew.t = "dict"

\* C2: a validate-idea request with a non-empty idea whose two crew runs complete
\* is answered with a validation response holding all three fields, each the
\* upstream result or its placeholder, and not with the HTTP 500 error.
C2_ValidationReturned ==
    BothCrewsCompleted =>
        /\ response.status = 200
        /\ response.body.t = "ValidationResponse"
        /\ response.body.v.market_analysis
              \in {crew.v[K_market_analysis].v, MarketPlaceholder}
        /\ response.body.v.technical_evaluation
              \in {crew.v[K_technical_evaluation].v, TechnicalPlaceholder}
        /\ response.body.v.business_plan
              \in {crew.v[K_business_plan].v, BusinessPlaceholder}

\* the language model was initialized, or a crew was created or run
UsedUpstream == trace # <<>>

\* C7: a validate-idea request with an empty idea is rejected with HTTP 400 and
\* the detail "Idea is required", and no language model is initialized and no
\* crew is created or run for it.
C7_EmptyIdeaRejected ==
    (pc = "done" /\ endpoint = "validate_idea" /\ idea = <<>>) =>
        /\ response = HTTPException(400, <<"Idea is required">>)
        /\ ~UsedUpstream

\* the places of the calls of an operation in the trace
CallsOf(op) == {i \in DOMAIN trace : trace[i].op = op}

\* the first crew's kickoff returned results that have an item 0 and an item 1
FirstCrewReturned ==
    /\ stage1.results # Unbound
    /\ subscript(stage1.results, 0).ok
    /\ subscript(stage1.results, 1).ok

\* the business task is created and the final crew is kicked off only after the
\* call of the first crew's kickoff, and only when that call has returned
SecondStageAfterFirst ==
    \A i \in CallsOf("create_business_plan_task") \cup CallsOf("final_crew.kickoff") :
        /\ \E j \in CallsOf("first_crew.kickoff") : j < i
        /\ FirstCrewReturned

\* a prompt has a result: its text is part of the prompt, and under its heading
\* when it is not empty
PromptHas(prompt, heading, r) ==
    /\ contains(prompt, py_str(r))
    /\ truthy(r) => contains(prompt, heading \o py_str(r))

\* the prompt of every business task has the two results of the first run
PromptHasBothResults ==
    \A i \in CallsOf("create_business_plan_task") :
        /\ PromptHas(trace[i].arg.v, MarketSummary, subscript(stage1.results, 0).val)
        /\ PromptHas(trace[i].arg.v, TechnicalSummary, subscript(stage1.results, 1).val)

\* the record create_idea_validation_crew returned
RecordOfBothRuns ==
    crew.t = "dict" =>
        /\ DOMAIN crew.v = {K_market_analysis, K_technical_evaluation, K_business_plan}
        /\ crew.v[K_market_analysis] = subscript(stage1.results, 0).val
        /\ crew.v[K_technical_evaluation] = subscript(stage1.results, 1).val
        /\ stage1.final_result # Unbound
        /\ crew.v[K_business_plan] = stage1.final_result

\* C12: in create_idea_validation_crew the business task is created and the final
\* crew kicked off only after the first crew has returned its results, the
\* business task's prompt has the market and the technical result of that run,
\* and the record returned maps market_analysis and technical_evaluation to the
\* first run's results 0 and 1 and business_plan to the final run's result.
C12_StagesOrdered ==
    /\ [](SecondStageAfterFirst /\ PromptHasBothResults /\ RecordOfBothRuns)
    /\ [][CallsOf("create_business_plan_task")' \ CallsOf("create_business_plan_task") # {}
            => (FirstCrewReturned /\ stage1.final_result = Unbound
                /\ CallsOf("final_crew.kickoff") = {})]_vars

C12_Witness ==
    /\ pc = "vi_kickoff"
    /\ stage1.results = PyList(<<PyStr(<<"m">>), PyStr(<<"t">>)>>)
    /\ stage1.final_result = PyStr(<<"b">>)
    /\ crew = validation_record(PyStr(<<"m">>), PyStr(<<"t">>), PyStr(<<"b">>))
    /\ \E i \in CallsOf("create_business_plan_task") :
          trace[i].arg.v = MarketSummary \o <<"m">> \o TechnicalSummary \o <<"t">>

\* lines 175-227 ran on a result and the request is answered
SectionsAnswered ==
    pc = "done" /\ endpoint = "validate_idea" /\ result.t # "unbound"

Markers == {MarketMarker, TechnicalMarker, BusinessMarker}

\* the first index >= i where a recognized marker starts in s, or Len(s) + 1
NextMarker(s, i) ==
    LET hits == {find(s, m, i) : m \in Markers} \ {0} IN
    IF hits = {} THEN Len(s) + 1
    ELSE CHOOSE h \in hits : \A g \in hits : h <= g

\* the trimmed text strictly between the marker m and the next recognized marker
\* (or the end of s), or the placeholder when m does not occur
SectionOf(s, m, placeholder) ==
    IF contains(s, m)
    THEN strip(SubSeq(s, find(s, m, 1) + Len(m),
                      NextMarker(s, find(s, m, 1) + Len(m)) - 1))
    ELSE placeholder

\* C5: on a single text string, the value of each section whose marker occurs is
\* the trimmed text strictly between that marker and the next recognized marker
\* present (or the end of the string), so that no later marker or section shows in
\* an earlier section; a section whose marker is absent keeps its placeholder.
C5_SectionsBetweenMarkers ==
    (SectionsAnswered /\ results_data.t = "str") =>
        /\ response.status = 200
        /\ response.body.v.market_analysis
              = SectionOf(results_data.v, MarketMarker, MarketPlaceholder)
        /\ response.body.v.technical_evaluation
              = SectionOf(results_data.v, TechnicalMarker, TechnicalPlaceholder)
        /\ response.body.v.business_plan
              = SectionOf(results_data.v, BusinessMarker, BusinessPlaceholder)

\* neither a record, nor a sequence of at least three items, nor a string
Unstructured(d) ==
    /\ d.t # "dict"
    /\ ~(d.t = "list" /\ Len(d.v) >= 3)
    /\ d.t # "str"

AllPlaceholders ==
    response =
        [status |-> 200,
         body |-> [t |-> "ValidationResponse",
                   v |-> [market_analysis |-> MarketPlaceholder,
                          technical_evaluation |-> TechnicalPlaceholder,
                          business_plan |-> BusinessPlaceholder]]]

C9_RecordThenTriple ==
    SectionsAnswered =>
        /\ results_data.t = "dict" =>
              /\ market_analysis =
                    IF K_market_analysis \in DOMAIN results_data.v
                    THEN results_data.v[K_market_analysis]
                    ELSE PyStr(MarketPlaceholder)
              /\ technical_evaluation =
                    IF K_technical_evaluation \in DOMAIN results_data.v
                    THEN results_data.v[K_technical_evaluation]
                    ELSE PyStr(TechnicalPlaceholder)
              /\ business_plan =
                    IF K_business_plan \in DOMAIN results_data.v
                    THEN results_data.v[K_business_plan]
                    ELSE PyStr(BusinessPlaceholder)
        /\ (results_data.t = "list" /\ Len(results_data.v) >= 3) =>
              /\ market_analysis = results_data.v[1]
              /\ technical_evaluation = results_data.v[2]
              /\ business_plan = results_data.v[3]
        /\ (/\ results_data.t \in {"dict", "list"}
            /\ response.status = 200) =>
              /\ response.body.v.market_analysis = market_analysis.v
              /\ response.body.v.technical_evaluation = technical_evaluation.v
              /\ response.body.v.business_plan = business_plan.v

C9_Witness ==
    /\ SectionsAnswered
    /\ results_data.t = "list"
    /\ Len(results_data.v) = 4
    /\ results_data.v[1] # results_data.v[2]
    /\ response.status = 200
    /\ response.body.v.market_analysis = results_data.v[1].v
====
